---- MODULE Spec2Model ----
(***************************************************************************)
(* Model of the port scanner (src/modules/scanners/port_scanner.rs).       *)
(*                                                                         *)
(* Two specifications share the module:                                    *)
(*   SpecNorm  the address normalizers normalize_target and normalize_addr *)
(*             as pure functions over strings (sequences of characters);   *)
(*   Spec      run_with_settings: the orchestrator, the semaphore, the     *)
(*             spawned TCP and UDP probe workers and the output file;      *)
(*   SpecRdp   run of src/modules/creds/generic/rdp_bruteforce.rs: the     *)
(*             password loop, its batches of login tasks, the stop flag.   *)
(***************************************************************************)
EXTENDS Integers, Sequences, FiniteSets, Bags, TLC

(***************************************************************************)
(* Bounds of the model.                                                    *)
(***************************************************************************)
\* longest free-form input string given to the normalizers
MaxLen == 4
\* deepest bracket nesting around the IPv6 literal scenarios
MaxNest == 3
\* last port of the sweep (65535 in the program)
MaxPort == 2
\* largest concurrency value explored
MaxConcurrency == 2
\* most writes to the output file that fail in one run
MaxWriteFailures == 1
\* longest username list and longest password list of the RDP module
MaxUsers == 2
MaxPasswords == 2
\* largest "Max concurrent tasks" of the RDP module
MaxRdpConcurrency == 2

(***************************************************************************)
(* Strings are sequences of one-character strings.                         *)
(***************************************************************************)
Alphabet == {"[", "]", ":", ".", " ", "a"}

Strings(n) == UNION {[1..k -> Alphabet] : k \in 0..n}

\* char::is_whitespace, restricted to the alphabet
IsWhitespace(c) == c = " "

RECURSIVE TrimStartWs(_)
TrimStartWs(s) ==
    IF s # <<>> /\ IsWhitespace(Head(s)) THEN TrimStartWs(Tail(s)) ELSE s

RECURSIVE TrimEndWs(_)
TrimEndWs(s) ==
    IF s # <<>> /\ IsWhitespace(s[Len(s)])
    THEN TrimEndWs(SubSeq(s, 1, Len(s) - 1))
    ELSE s

\* str::trim
Trim(s) == TrimEndWs(TrimStartWs(s))

\* str::trim_start_matches(c): removes every leading c
RECURSIVE TrimStartMatches(_, _)
TrimStartMatches(s, c) ==
    IF s # <<>> /\ Head(s) = c THEN TrimStartMatches(Tail(s), c) ELSE s

\* str::trim_end_matches(c): removes every trailing c
RECURSIVE TrimEndMatches(_, _)
TrimEndMatches(s, c) ==
    IF s # <<>> /\ s[Len(s)] = c
    THEN TrimEndMatches(SubSeq(s, 1, Len(s) - 1), c)
    ELSE s

\* str::contains(c)
Contains(s, c) == \E i \in 1..Len(s) : s[i] = c

DigitChars == <<"0", "1", "2", "3", "4", "5", "6", "7", "8", "9">>

\* format!("{}", port) for an unsigned integer
RECURSIVE Decimal(_)
Decimal(n) ==
    IF n < 10 THEN <<DigitChars[n + 1]>>
    ELSE Decimal(n \div 10) \o <<DigitChars[(n % 10) + 1]>>

\* format!("{}:{}", ip, port)
HostPort(ip, p) == ip \o <<":">> \o Decimal(p)

\* format!("[{}]", s)
Bracketed(s) == <<"[">> \o s \o <<"]">>

(***************************************************************************)
(* normalize_target: the string bound to `input` on line 177; `raw` is the *)
(* argument `input` of the two normalizers.                                *)
(***************************************************************************)
StripTarget(raw) ==
    Trim(TrimEndMatches(TrimStartMatches(Trim(raw), "["), "]"))

\* the IPv6 test of lines 178 and 191
LooksIPv6_colon_only(s) == Contains(s, ":")
LooksIPv6(s) == Contains(s, ":") /\ ~Contains(s, ".")

\* normalize_target always returns Ok; this is the string inside the Ok
normalize_target(raw) ==
    LET s == StripTarget(raw)
    IN  IF LooksIPv6(s) THEN Bracketed(s) ELSE s

(***************************************************************************)
(* normalize_addr: `cleaned` (line 189) and `formatted` (lines 191-195),   *)
(* the string handed to to_socket_addrs on line 197.                       *)
(***************************************************************************)
cleaned(raw) == TrimEndMatches(TrimStartMatches(Trim(raw), "["), "]")

formatted(raw) ==
    LET c == cleaned(raw)
    IN  IF LooksIPv6(c) THEN Bracketed(c) ELSE c

(***************************************************************************)
(* The resolver behind to_socket_addrs (line 197) and TcpStream::connect   *)
(* (line 137), for a "host:port" string: a bracketed IPv6 literal with a   *)
(* port parses directly; otherwise the string is split at its last colon,  *)
(* the port must parse as u16 and the host is looked up.                   *)
(***************************************************************************)
V6Literals == {<<":", ":", "1">>}
ResolvableNames == {<<"h", ".", "x">>}

IsDigit(c) == \E d \in 1..10 : DigitChars[d] = c

RECURSIVE DecimalValue(_)
DecimalValue(s) ==
    IF s = <<>> THEN 0
    ELSE 10 * DecimalValue(SubSeq(s, 1, Len(s) - 1))
         + (CHOOSE d \in 0..9 : DigitChars[d + 1] = s[Len(s)])

\* str::parse::<u16> succeeds
IsPort(s) ==
    /\ s # <<>>
    /\ \A i \in 1..Len(s) : IsDigit(s[i])
    /\ DecimalValue(s) <= 65535

LastColon(s) ==
    IF Contains(s, ":")
    THEN CHOOSE i \in 1..Len(s) :
            s[i] = ":" /\ \A j \in (i + 1)..Len(s) : s[j] # ":"
    ELSE 0

\* TRUE iff the string resolves to at least one socket address
ToSocketAddrs(s) ==
    LET i == LastColon(s)
        h == SubSeq(s, 1, i - 1)
        p == SubSeq(s, i + 1, Len(s))
    IN  /\ i > 0
        /\ IsPort(p)
        /\ \/ \E v \in V6Literals : h = Bracketed(v)
           \/ h \in V6Literals
           \/ h \in ResolvableNames

\* normalize_addr as a whole: Ok(addr) or Err
normalize_addr(raw) ==
    IF ToSocketAddrs(formatted(raw)) THEN "Ok" ELSE "Err"

(***************************************************************************)
(* State.                                                                  *)
(***************************************************************************)
VARIABLES
    \* --- the normalizers applied to one input (SpecNorm) ---
    input,            \* the string given to normalize_target
    nport,            \* the port appended to the normalized host
    npc,              \* "input", "host", "again", "remote"
    host,             \* normalize_target(input)
    host2,            \* normalize_target(host)
    remote,           \* what normalize_addr hands to to_socket_addrs
    resolved,         \* what normalize_addr returns: "Ok" or "Err"
    \* --- run_with_settings (Spec) ---
    rawTarget,        \* the `target` argument
    concurrency,
    show_only_open,
    verbose,
    scan_udp_enabled,
    pc,               \* position of run_with_settings
    target,           \* the normalized target (line 69)
    permits,          \* permits available in the semaphore
    port,             \* loop variable of the current sweep
    tasks,            \* the spawned workers, in the order of `tasks`
    file,             \* the lines of the output file, as a bag
    console,          \* the lines printed on stdout, as a bag
    writeFailures,    \* writes of a result line that failed so far
    \* --- rdp_bruteforce::run (SpecRdp) ---
    users,            \* number of lines of the username wordlist
    passwords,        \* number of lines of the password wordlist
    rconcurrency,     \* `concurrency` of the RDP module
    stop_on_success,
    combo_mode,
    rpc,              \* position of rdp_bruteforce::run
    pass,             \* index of the current password in pass_lines
    idx,              \* `idx`
    nextUser,         \* position of the inner loop in `userlist`
    handles,          \* `handles`: the tasks spawned and not yet awaited
    logins,           \* every login task spawned so far
    stop,             \* the shared flag `stop`
    found             \* the shared vector `found`

normVars == <<input, nport, npc, host, host2, remote, resolved>>
confVars == <<rawTarget, concurrency, show_only_open, verbose,
              scan_udp_enabled>>
scanVars == <<pc, target, permits, port, tasks, file, console,
              writeFailures>>
rdpVars == <<users, passwords, rconcurrency, stop_on_success, combo_mode,
             rpc, pass, idx, nextUser, handles, logins, stop, found>>
vars == <<normVars, confVars, scanVars, rdpVars>>

(***************************************************************************)
(* SpecNorm: the normalizers on bounded inputs.                            *)
(***************************************************************************)
RECURSIVE Nested(_, _)
Nested(s, k) == IF k = 0 THEN s ELSE Bracketed(Nested(s, k - 1))

\* an IPv6 literal in 0..MaxNest bracket pairs
NestedV6 == {Nested(v, k) : v \in V6Literals, k \in 0..MaxNest}

NormInputs == Strings(MaxLen) \cup NestedV6 \cup ResolvableNames
NormPorts == {1, 80, 65535}

NormIdle ==
    /\ input = <<>> /\ nport = 1 /\ npc = "idle"
    /\ host = <<>> /\ host2 = <<>> /\ remote = <<>> /\ resolved = "none"

ScanIdle ==
    /\ rawTarget = <<>> /\ concurrency = 1
    /\ show_only_open = FALSE /\ verbose = FALSE /\ scan_udp_enabled = FALSE
    /\ pc = "idle" /\ target = <<>> /\ permits = 0 /\ port = 1
    /\ tasks = <<>> /\ file = EmptyBag /\ console = EmptyBag
    /\ writeFailures = 0

RdpIdle ==
    /\ users = 0 /\ passwords = 0 /\ rconcurrency = 1
    /\ stop_on_success = FALSE /\ combo_mode = FALSE
    /\ rpc = "idle" /\ pass = 1 /\ idx = 0 /\ nextUser = 1
    /\ handles = <<>> /\ logins = <<>> /\ stop = FALSE /\ found = <<>>

InitNorm ==
    /\ input \in NormInputs
    /\ nport \in NormPorts
    /\ npc = "input"
    /\ host = <<>> /\ host2 = <<>> /\ remote = <<>> /\ resolved = "none"
    /\ ScanIdle
    /\ RdpIdle

\* line 69: normalize_target(target)
NormalizeTarget ==
    /\ npc = "input"
    /\ host' = normalize_target(input)
    /\ npc' = "host"
    /\ UNCHANGED <<input, nport, host2, remote, resolved, confVars, scanVars, rdpVars>>

\* normalize_target applied to its own output
NormalizeAgain ==
    /\ npc = "host"
    /\ host2' = normalize_target(host)
    /\ npc' = "again"
    /\ UNCHANGED <<input, nport, host, remote, resolved, confVars, scanVars, rdpVars>>

\* lines 159-163: normalize_addr(format!("{}:{}", ip, port))
NormalizeAddr ==
    /\ npc = "again"
    /\ remote' = formatted(HostPort(host, nport))
    /\ resolved' = normalize_addr(HostPort(host, nport))
    /\ npc' = "remote"
    /\ UNCHANGED <<input, nport, host, host2, confVars, scanVars, rdpVars>>

NextNorm == NormalizeTarget \/ NormalizeAgain \/ NormalizeAddr

SpecNorm == InitNorm /\ [][NextNorm]_vars

(***************************************************************************)
(* Spec: run_with_settings.                                                *)
(***************************************************************************)
\* targets of a scan: an IPv6 literal in two bracket pairs, a resolvable
\* name and a name that does not resolve
Targets == {Nested(<<":", ":", "1">>, 2), <<"h", ".", "x">>, <<"n", ".", "x">>}

Line(proto, p, status, banner) ==
    [proto |-> proto, port |-> p, status |-> status, banner |-> banner]

\* line 73: "Scan Results for <target>"
HeaderLine == Line("HEADER", 0, "", "")
\* lines 75, 104, 130
Message(m) == Line("*", 0, m, "")

\* The file and the console are append-only and the program never reads
\* them back; the order in which workers append is unconstrained, so both
\* are kept as the bag of the lines appended so far.
WriteLn(out, line) == out (+) SetToBag({line})

\* a spawned worker: the JoinHandle pushed on `tasks` and the task behind it
\* (`res` is what the probe returned: <<>> for None, <<result>> for Some)
Task(proto, p) ==
    [proto |-> proto, port |-> p, st |-> "spawned", sent |-> FALSE,
     res |-> <<>>]

InFlight(i) == tasks[i].st # "done"
NumInFlight == Cardinality({i \in 1..Len(tasks) : InFlight(i)})

Init ==
    /\ NormIdle
    /\ RdpIdle
    /\ rawTarget \in Targets
    /\ concurrency \in 0..MaxConcurrency
    /\ show_only_open \in BOOLEAN
    /\ verbose \in BOOLEAN
    /\ scan_udp_enabled \in BOOLEAN
    /\ pc = "start"
    /\ target = <<>>
    /\ permits = 0
    /\ port = 1
    /\ tasks = <<>>
    /\ file = EmptyBag
    /\ console = EmptyBag
    /\ writeFailures = 0

\* line 73: the file once the header has been written
HeaderWritten_not(f) == f
HeaderWritten(f) == WriteLn(f, HeaderLine)

\* lines 72-73: both `?` return Err, otherwise the TCP sweep starts
SetupPc_errors_ignored(created, written) == "tcp"
SetupPc(created, written) == IF created /\ written THEN "tcp" ELSE "err"

\* lines 69-75: normalize, create the semaphore, create the file, write the
\* header; a failure of File::create or of the header write returns Err
Setup ==
    /\ pc = "start"
    /\ target' = normalize_target(rawTarget)
    /\ permits' = concurrency
    /\ \E created \in BOOLEAN, written \in BOOLEAN :
        /\ pc' = SetupPc(created, written)
        /\ file' = IF created /\ written THEN HeaderWritten(file) ELSE file
        /\ console' = IF pc' = "tcp"
                      THEN WriteLn(console, Message("Starting TCP scan"))
                      ELSE console
    /\ port' = 1
    /\ UNCHANGED <<tasks, writeFailures, normVars, confVars, rdpVars>>

\* Semaphore::acquire_owned returns a permit (line 77, 106)
Acquirable_no_limit == TRUE
Acquirable == permits > 0

\* the phase that follows the TCP sweep (line 103)
AfterTcp == IF scan_udp_enabled THEN "udp" ELSE "join"

\* the last port of `1..=65535`
LastPort_exclusive == MaxPort - 1
LastPort == MaxPort

\* lines 76-101: one iteration of the TCP sweep
DispatchTcp ==
    /\ pc = "tcp"
    /\ port <= LastPort
    /\ Acquirable
    /\ \E cloned \in BOOLEAN :
        IF cloned
        THEN /\ permits' = permits - 1
             /\ tasks' = Append(tasks, Task("TCP", port))
             /\ IF port = LastPort
                THEN /\ pc' = AfterTcp
                     /\ port' = 1
                     /\ console' = IF AfterTcp = "udp"
                                   THEN WriteLn(console,
                                                Message("Starting UDP scan"))
                                   ELSE console
                ELSE /\ pc' = "tcp"
                     /\ port' = port + 1
                     /\ console' = console
        ELSE \* file.try_clone()? fails: the permit is dropped, Err returned
             /\ pc' = "err"
             /\ UNCHANGED <<permits, tasks, port, console>>
    /\ UNCHANGED <<target, file, writeFailures, normVars, confVars, rdpVars>>

\* lines 105-123: one iteration of the UDP sweep
DispatchUdp ==
    /\ pc = "udp"
    /\ port <= LastPort
    /\ Acquirable
    /\ \E cloned \in BOOLEAN :
        IF cloned
        THEN /\ permits' = permits - 1
             /\ tasks' = Append(tasks, Task("UDP", port))
             /\ IF port = LastPort
                THEN pc' = "join" /\ port' = 1
                ELSE pc' = "udp" /\ port' = port + 1
        ELSE /\ pc' = "err"
             /\ UNCHANGED <<permits, tasks, port>>
    /\ UNCHANGED <<target, file, console, writeFailures, normVars,
                   confVars, rdpVars>>

\* lines 85 and 114: the filter of the result sink
Shown_unfiltered(status) == TRUE
Shown(status) == status = "OPEN" \/ ~show_only_open

\* lines 87, 92, 115: `.ok()` discards the result of the write and the
\* worker goes on; nothing reaches run_with_settings
AfterWrite_abort(wrote) == IF wrote THEN pc ELSE "err"
AfterWrite(wrote) == pc

\* the drop of `_permit` when the task ends (lines 82, 111)
Released_leaked(n) == n
Released(n) == n + 1

\* lines 83-98 and 112-120, then the drop of `_permit`: the end of a worker.
\* `res` is <<>> (None) or <<result>>; `wrote` tells whether writeln! succeeded.
Finish(i, res, wrote) ==
    /\ tasks' = [tasks EXCEPT ![i].st = "done", ![i].res = res,
                              ![i].sent = FALSE]
    /\ permits' = Released(permits)
    /\ pc' = AfterWrite(wrote)
    /\ IF res # <<>> /\ Shown(res[1].status)
       THEN /\ wrote \/ writeFailures < MaxWriteFailures
            /\ file' = IF wrote THEN WriteLn(file, res[1]) ELSE file
            /\ writeFailures' = IF wrote THEN writeFailures
                                 ELSE writeFailures + 1
            /\ console' = IF verbose THEN WriteLn(console, res[1]) ELSE console
       ELSE /\ wrote
            /\ UNCHANGED <<file, console, writeFailures>>
    /\ UNCHANGED <<target, port, normVars, confVars, rdpVars>>

\* outcomes of timeout(.., TcpStream::connect(&addr)) (line 137)
ConnectOutcomes_any(addr) == {"ok", "failed", "timeout"}
ConnectOutcomes(addr) ==
    IF ToSocketAddrs(addr) THEN {"ok", "failed", "timeout"}
    ELSE {"failed", "timeout"}

\* the addresses of a sweep, format!("{}:{}", ip, port) of lines 136 and 159,
\* each with the outcomes of its connect and with what normalize_addr
\* returns for it
ScanHosts == {normalize_target(t) : t \in Targets}
TcpOutcomes ==
    [h \in ScanHosts, p \in 1..MaxPort |-> ConnectOutcomes(HostPort(h, p))]
UdpRemote ==
    [h \in ScanHosts, p \in 1..MaxPort |-> normalize_addr(HostPort(h, p))]

\* lines 151-152: the status of a connect that did not succeed
ConnectStatus(outcome) == IF outcome = "failed" THEN "CLOSED" ELSE "TIMEOUT"

\* lines 151-152: what scan_tcp returns when the connect did not succeed
ConnectResult_none_on_timeout(p, outcome) ==
    IF outcome = "timeout" THEN <<>>
    ELSE <<Line("TCP", p, ConnectStatus(outcome), "")>>
ConnectResult(p, outcome) == <<Line("TCP", p, ConnectStatus(outcome), "")>>

\* scan_tcp, lines 136-137 and 151-152: the connect attempt
TcpConnect(i) ==
    /\ i \in 1..Len(tasks)
    /\ tasks[i].proto = "TCP" /\ tasks[i].st = "spawned"
    /\ \E outcome \in TcpOutcomes[target, tasks[i].port] :
        IF outcome = "ok"
        THEN /\ tasks' = [tasks EXCEPT ![i].st = "readable"]
             /\ UNCHANGED <<pc, target, permits, port, file, console,
                            writeFailures, normVars, confVars, rdpVars>>
        ELSE \E wrote \in BOOLEAN :
                Finish(i, ConnectResult(tasks[i].port, outcome), wrote)

\* lines 140-148: the banner after the 2 second wait for readability
BannerOutcomes == {"data", "eof", "read_error", "not_readable", "timeout"}
Banner(outcome) == IF outcome = "data" THEN "B" ELSE ""

\* lines 144-148: what scan_tcp returns once the connect has succeeded
BannerResult_downgraded(p, outcome) ==
    IF outcome = "data" THEN <<Line("TCP", p, "OPEN", "B")>>
    ELSE <<Line("TCP", p, "TIMEOUT", "")>>
BannerResult(p, outcome) == <<Line("TCP", p, "OPEN", Banner(outcome))>>

\* scan_tcp, lines 138-150: the best-effort banner read of an open port
TcpBanner(i) ==
    /\ i \in 1..Len(tasks)
    /\ tasks[i].proto = "TCP" /\ tasks[i].st = "readable"
    /\ \E res \in {BannerResult(tasks[i].port, o) : o \in BannerOutcomes},
          wrote \in BOOLEAN :
        Finish(i, res, wrote)

\* scan_udp, lines 158-166: resolve the remote address, bind the socket and
\* send the probe; the result of send_to is discarded
UdpSend(i) ==
    /\ i \in 1..Len(tasks)
    /\ tasks[i].proto = "UDP" /\ tasks[i].st = "spawned"
    /\ \E bound \in BOOLEAN :
        IF UdpRemote[target, tasks[i].port] = "Ok" /\ bound
        THEN /\ \E sent \in BOOLEAN :
                tasks' = [tasks EXCEPT ![i].st = "waiting", ![i].sent = sent]
             /\ UNCHANGED <<pc, target, permits, port, file, console,
                            writeFailures, normVars, confVars, rdpVars>>
        ELSE Finish(i, <<>>, TRUE)

\* lines 169-172: what scan_udp returns for each outcome of the receive
UdpResult_closed(p, outcome) ==
    IF outcome = "datagram" THEN <<Line("UDP", p, "OPEN", "")>>
    ELSE <<Line("UDP", p, "CLOSED", "")>>
UdpResult(p, outcome) ==
    IF outcome = "datagram" THEN <<Line("UDP", p, "OPEN", "")>> ELSE <<>>

\* scan_udp, lines 169-172: wait for a datagram
UdpRecv(i) ==
    /\ i \in 1..Len(tasks)
    /\ tasks[i].proto = "UDP" /\ tasks[i].st = "waiting"
    /\ \E res \in {UdpResult(tasks[i].port, o) :
                        o \in {"datagram", "recv_error", "timeout"}},
          wrote \in BOOLEAN :
        Finish(i, res, wrote)

\* every handle of `tasks` has been awaited (lines 126-128); awaiting a
\* handle changes nothing but the position of the loop
AllJoined_tcp_only ==
    \A i \in 1..Len(tasks) : tasks[i].proto = "TCP" => tasks[i].st = "done"
AllJoined == \A i \in 1..Len(tasks) : tasks[i].st = "done"

\* lines 126-131: the handles are awaited in order, then the completion
\* message is printed and Ok returned
Complete ==
    /\ pc = "join"
    /\ AllJoined
    /\ pc' = "done"
    /\ console' = WriteLn(console, Message("Scan complete"))
    /\ UNCHANGED <<target, permits, port, tasks, file, writeFailures,
                   normVars, confVars, rdpVars>>

Worker(i) ==
    TcpConnect(i) \/ TcpBanner(i) \/ UdpSend(i) \/ UdpRecv(i)

Next ==
    \/ Setup
    \/ DispatchTcp
    \/ DispatchUdp
    \/ \E i \in 1..Len(tasks) : Worker(i)
    \/ Complete

Spec == Init /\ [][Next]_vars

\* the runtime keeps polling: the orchestrator and every spawned task take
\* their next step when they can (each probe is bounded by its timeout)
SpecFair == Spec /\ WF_vars(Next)

(***************************************************************************)
(* SpecRdp: run of rdp_bruteforce.rs from line 47 on.  Users and passwords *)
(* are the indices of their lines in the two wordlists.                    *)
(***************************************************************************)
InitRdp ==
    /\ NormIdle
    /\ ScanIdle
    /\ users \in 0..MaxUsers
    /\ passwords \in 0..MaxPasswords
    /\ rconcurrency \in 1..MaxRdpConcurrency
    /\ stop_on_success \in BOOLEAN
    /\ combo_mode \in BOOLEAN
    /\ rpc = "pass"
    /\ pass = 1
    /\ idx = 0
    /\ nextUser = 1
    /\ handles = <<>>
    /\ logins = <<>>
    /\ stop = FALSE
    /\ found = <<>>

\* lines 64-68: the users tried with the current password
userlist ==
    IF combo_mode THEN [k \in 1..users |-> k] ELSE <<(idx % users) + 1>>

\* lines 59-70: the next password, unless the list is over or `stop` is set;
\* `idx % users.len()` panics on an empty user list
NextPassword ==
    /\ rpc = "pass"
    /\ IF pass > passwords \/ stop THEN rpc' = "report"
       ELSE IF ~combo_mode /\ users = 0 THEN rpc' = "panic"
       ELSE rpc' = "spawn"
    /\ nextUser' = 1
    /\ handles' = <<>>
    /\ UNCHANGED <<users, passwords, rconcurrency, stop_on_success,
                   combo_mode, pass, idx, logins, stop, found,
                   normVars, confVars, scanVars>>

\* line 105: the batch is full
DrainDue_late(n) == n > rconcurrency
DrainDue(n) == n >= rconcurrency

\* lines 72-105: spawn the task of the next user and push its handle
SpawnLogin ==
    /\ rpc = "spawn"
    /\ IF nextUser > Len(userlist)
       THEN /\ rpc' = "join"
            /\ UNCHANGED <<logins, handles, nextUser>>
       ELSE /\ logins' = Append(logins, [user |-> userlist[nextUser],
                                         pass |-> pass, st |-> "spawned"])
            /\ handles' = Append(handles, Len(logins) + 1)
            /\ nextUser' = nextUser + 1
            /\ rpc' = IF DrainDue(Len(handles) + 1) THEN "drain" ELSE "spawn"
    /\ UNCHANGED <<users, passwords, rconcurrency, stop_on_success,
                   combo_mode, pass, idx, stop, found,
                   normVars, confVars, scanVars>>

\* lines 106-108: await the handles of a full batch, in order
Drain ==
    /\ rpc = "drain"
    /\ handles # <<>>
    /\ logins[Head(handles)].st = "done"
    /\ handles' = Tail(handles)
    /\ rpc' = IF Tail(handles) = <<>> THEN "spawn" ELSE "drain"
    /\ UNCHANGED <<users, passwords, rconcurrency, stop_on_success,
                   combo_mode, pass, idx, nextUser, logins, stop, found,
                   normVars, confVars, scanVars>>

\* lines 112-116: await the handles left, then go to the next password
JoinRest ==
    /\ rpc = "join"
    /\ IF handles = <<>>
       THEN /\ idx' = idx + 1
            /\ pass' = pass + 1
            /\ rpc' = "pass"
            /\ handles' = handles
       ELSE /\ logins[Head(handles)].st = "done"
            /\ handles' = Tail(handles)
            /\ UNCHANGED <<idx, pass, rpc>>
    /\ UNCHANGED <<users, passwords, rconcurrency, stop_on_success,
                   combo_mode, nextUser, logins, stop, found,
                   normVars, confVars, scanVars>>

\* lines 119-138: print and save what was found
Report ==
    /\ rpc = "report"
    /\ rpc' = "done"
    /\ UNCHANGED <<users, passwords, rconcurrency, stop_on_success,
                   combo_mode, pass, idx, nextUser, handles, logins, stop,
                   found, normVars, confVars, scanVars>>

\* lines 80-82: a task that finds `stop` set returns at once
AfterStopCheck(flag) == IF flag THEN "done" ELSE "login"

CheckStop(t) ==
    /\ t \in 1..Len(logins)
    /\ logins[t].st = "spawned"
    /\ logins' = [logins EXCEPT ![t].st = AfterStopCheck(stop)]
    /\ UNCHANGED <<users, passwords, rconcurrency, stop_on_success,
                   combo_mode, rpc, pass, idx, nextUser, handles, stop,
                   found, normVars, confVars, scanVars>>

\* lines 84-98: try_rdp_login returns Ok(true), Ok(false) or Err
Login(t) ==
    /\ t \in 1..Len(logins)
    /\ logins[t].st = "login"
    /\ \E outcome \in {"valid", "invalid", "error"} :
        logins' = [logins EXCEPT
                     ![t].st = IF outcome = "valid" THEN "push" ELSE "sleep"]
    /\ UNCHANGED <<users, passwords, rconcurrency, stop_on_success,
                   combo_mode, rpc, pass, idx, nextUser, handles, stop,
                   found, normVars, confVars, scanVars>>

\* lines 86-87: record the credential
Push(t) ==
    /\ t \in 1..Len(logins)
    /\ logins[t].st = "push"
    /\ found' = Append(found, <<logins[t].user, logins[t].pass>>)
    /\ logins' = [logins EXCEPT
                    ![t].st = IF stop_on_success THEN "set_stop" ELSE "sleep"]
    /\ UNCHANGED <<users, passwords, rconcurrency, stop_on_success,
                   combo_mode, rpc, pass, idx, nextUser, handles, stop,
                   normVars, confVars, scanVars>>

\* lines 88-90: set `stop`
SetStop(t) ==
    /\ t \in 1..Len(logins)
    /\ logins[t].st = "set_stop"
    /\ stop' = TRUE
    /\ logins' = [logins EXCEPT ![t].st = "sleep"]
    /\ UNCHANGED <<users, passwords, rconcurrency, stop_on_success,
                   combo_mode, rpc, pass, idx, nextUser, handles, found,
                   normVars, confVars, scanVars>>

\* line 100: the task sleeps 10 ms and ends
Sleep(t) ==
    /\ t \in 1..Len(logins)
    /\ logins[t].st = "sleep"
    /\ logins' = [logins EXCEPT ![t].st = "done"]
    /\ UNCHANGED <<users, passwords, rconcurrency, stop_on_success,
                   combo_mode, rpc, pass, idx, nextUser, handles, stop,
                   found, normVars, confVars, scanVars>>

LoginTask(t) ==
    CheckStop(t) \/ Login(t) \/ Push(t) \/ SetStop(t) \/ Sleep(t)

NextRdp ==
    \/ NextPassword
    \/ SpawnLogin
    \/ Drain
    \/ JoinRest
    \/ Report
    \/ \E t \in 1..Len(logins) : LoginTask(t)

SpecRdp == InitRdp /\ [][NextRdp]_vars

(***************************************************************************)
(* Properties of the normalizers (checked under SpecNorm).                 *)
(***************************************************************************)

\* C5: normalization is idempotent: normalize_target applied to its own
\* output returns that output, for every input.
C5_Idempotent ==
    npc \in {"again", "remote"} => host2 = host

\* C6 as stated: the stripped input is wrapped in one bracket pair exactly
\* when it contains a colon, and returned without brackets otherwise.
C6_ColonRule ==
    npc # "input" =>
        LET s == StripTarget(input)
        IN  host = IF Contains(s, ":") THEN Bracketed(s) ELSE s

\* C6 amended: with s the input after trimming, removing every leading '['
\* and every trailing ']' (and, for normalize_target, trimming again), the
\* normalizer returns s in exactly one bracket pair iff s contains a colon
\* and no dot, and s itself otherwise; normalize_addr applies the same test
\* to the host:port string it is given.
C6_ColonNoDotRule ==
    /\ npc # "input" =>
        LET s == Trim(TrimEndMatches(TrimStartMatches(Trim(input), "["), "]"))
        IN  /\ (Contains(s, ":") /\ ~Contains(s, ".")) => host = Bracketed(s)
            /\ ~(Contains(s, ":") /\ ~Contains(s, ".")) => host = s
    /\ npc = "remote" =>
        LET c == TrimEndMatches(TrimStartMatches(
                     Trim(HostPort(host, nport)), "["), "]")
        IN  /\ (Contains(c, ":") /\ ~Contains(c, ".")) => remote = Bracketed(c)
            /\ ~(Contains(c, ":") /\ ~Contains(c, ".")) => remote = c

\* C6 witness: a bracketed input holding a colon and a dot has been
\* normalized and came back without brackets.
C6_Witness ==
    /\ npc = "host"
    /\ input # <<>>
    /\ Head(input) = "["
    /\ Contains(input, ":") /\ Contains(input, ".")
    /\ host # <<>> /\ Head(host) # "["

\* C7: an IPv6 literal in any number of bracket pairs normalizes to the
\* literal in exactly one pair, and the host:port variant hands the resolver
\* exactly "[literal]:port".
C7_BracketedV6Resolution ==
    (npc = "remote" /\ input \in NestedV6) =>
        \E v \in V6Literals :
            /\ host = Bracketed(v)
            /\ remote = HostPort(Bracketed(v), nport)

(***************************************************************************)
(* Properties of run_with_settings (checked under Spec).                   *)
(***************************************************************************)
TcpTasks == {i \in 1..Len(tasks) : tasks[i].proto = "TCP"}
UdpTasks == {i \in 1..Len(tasks) : tasks[i].proto = "UDP"}
TcpInFlight == {i \in TcpTasks : InFlight(i)}
Done(i) == tasks[i].st = "done"
Produced(i) == Done(i) /\ tasks[i].res # <<>>
ResultLines(out) == {l \in BagToSet(out) : l.proto \in {"TCP", "UDP"}}

\* the targets that resolve to a socket address for none of the ports
UnresolvableTargets ==
    {t \in Targets :
        \A p \in 1..MaxPort : ~ToSocketAddrs(HostPort(normalize_target(t), p))}
Unresolvable == rawTarget \in UnresolvableTargets

C2_ConcurrencyBound ==
    concurrency >= 1 => NumInFlight <= concurrency

\* C2 witness: the budget is used up by a TCP and a UDP worker together
\* while the UDP sweep still has ports to dispatch.
C2_Witness ==
    /\ concurrency >= 1
    /\ NumInFlight = concurrency
    /\ pc = "udp"
    /\ TcpInFlight # {}
    /\ \E i \in UdpTasks : InFlight(i)

\* C3: when the scan has completed, every port of the range has exactly one
\* TCP worker, and that worker produced exactly one result, for that port,
\* with status OPEN, CLOSED or TIMEOUT.
C3_TcpTotality ==
    pc = "done" =>
        /\ \A i \in TcpTasks : tasks[i].port \in 1..MaxPort
        /\ \A p \in 1..MaxPort :
            /\ Cardinality({i \in TcpTasks : tasks[i].port = p}) = 1
            /\ \A i \in TcpTasks : tasks[i].port = p =>
                /\ Len(tasks[i].res) = 1
                /\ tasks[i].res[1].proto = "TCP"
                /\ tasks[i].res[1].port = p
                /\ tasks[i].res[1].status \in {"OPEN", "CLOSED", "TIMEOUT"}

\* C3 witness: a completed scan in which one port timed out and another
\* was open.
C3_Witness ==
    /\ pc = "done"
    /\ \E i \in TcpTasks : Produced(i) /\ tasks[i].res[1].status = "TIMEOUT"
    /\ \E i \in TcpTasks : Produced(i) /\ tasks[i].res[1].status = "OPEN"

\* what scan_udp returns when the receive times out
UdpTimeoutSilent == \A p \in 1..MaxPort : UdpResult(p, "timeout") = <<>>

\* C4: a UDP probe whose receive times out returns no result; the only
\* status a UDP probe produces is OPEN, and no UDP line of the file or of
\* the console has another status.
C4_UdpOnlyOpen ==
    /\ UdpTimeoutSilent
    /\ \A i \in UdpTasks : Produced(i) => tasks[i].res[1].status = "OPEN"
    /\ \A l \in ResultLines(file) \cup ResultLines(console) :
        l.proto = "UDP" => l.status = "OPEN"

\* C4 witness: one UDP probe finished without a result and another one
\* wrote an OPEN line.
C4_Witness ==
    /\ \E i \in UdpTasks : Done(i) /\ tasks[i].res = <<>>
    /\ \E i \in UdpTasks :
        /\ Produced(i)
        /\ BagIn(tasks[i].res[1], file)

C9_StepFailureNoResult ==
    [][\A i \in 1..Len(tasks) :
        (/\ tasks[i].proto = "UDP"
         /\ tasks'[i].st = "done"
         /\ \/ tasks[i].st = "spawned"
            \/ tasks[i].st = "waiting" /\ ~tasks[i].sent)
        => tasks'[i].res = <<>>]_vars

HasHeader == BagIn(HeaderLine, file)

\* C11: the header is written exactly once and before any result line: it
\* is in the file, once, from the end of the setup on, so whenever a worker
\* exists or a result line is in the file; and it is never written again.
C11_HeaderFirst ==
    /\ CopiesIn(HeaderLine, file) <= 1
    /\ (pc \in {"tcp", "udp", "join", "done"} \/ tasks # <<>>
        \/ ResultLines(file) # {})
       => CopiesIn(HeaderLine, file) = 1

\* C11 witness: a file holding the header and the lines of a TCP and of a
\* UDP worker.
C11_Witness ==
    /\ HasHeader
    /\ \E l \in ResultLines(file) : l.proto = "TCP"
    /\ \E l \in ResultLines(file) : l.proto = "UDP"

\* C12: when the output cannot be opened or the header cannot be written,
\* run_with_settings returns an error with no worker dispatched and no
\* result produced: without the header in the file there is no worker and
\* no result line, and the run is at its start or has failed.
C12_UnwritableOutputFatal ==
    ~HasHeader =>
        /\ pc \in {"start", "err"}
        /\ tasks = <<>>
        /\ ResultLines(file) = {} /\ ResultLines(console) = {}

\* C12 witness: the run failed in its setup.
C12_Witness == pc = "err" /\ ~HasHeader /\ tasks = <<>>

\* the worker whose task ends in this step
Finishes(i) == i \in 1..Len(tasks) /\ InFlight(i) /\ tasks'[i].st = "done"

\* every enabled sweep has dispatched all its ports
SweepsDispatched ==
    /\ \A p \in 1..MaxPort : \E i \in TcpTasks : tasks[i].port = p
    /\ scan_udp_enabled => \A p \in 1..MaxPort : \E i \in UdpTasks : tasks[i].port = p

\* C13: a failed write of a result line aborts nothing: in the step of the
\* failure the worker finishes and releases its permit and run_with_settings
\* stays where it is; a scan that completed after a failed write has
\* dispatched every port of every enabled sweep.
C13_WriteFailureTolerated ==
    /\ [](pc = "done" /\ writeFailures > 0 => SweepsDispatched /\ NumInFlight = 0)
    /\ [][writeFailures' > writeFailures =>
            /\ pc' = pc
            /\ permits' = permits + 1
            /\ \E i \in 1..Len(tasks) : Finishes(i)]_vars

\* C13 witness: a scan completed normally although the write of the first
\* port's line had failed.
C13_Witness ==
    /\ pc = "done"
    /\ writeFailures > 0
    /\ Produced(1) /\ ~BagIn(tasks[1].res[1], file)
    /\ Len(tasks) >= MaxPort

\* C14: once the setup has succeeded, the scan eventually returns (Ok or
\* Err), under fair scheduling of the orchestrator and of the workers.
C14_RunsToCompletion == (pc = "tcp") ~> (pc \in {"done", "err"})

\* C15: normal completion is signalled only after every worker of every
\* enabled sweep has been dispatched and has finished, and nothing is
\* written to the file after it.
C15_JoinBeforeCompletion ==
    /\ [](pc = "done" \/ BagIn(Message("Scan complete"), console)
            => SweepsDispatched /\ NumInFlight = 0)
    /\ [][pc = "done" => file' = file /\ tasks' = tasks]_vars

\* C15 witness: a completed scan with both sweeps.
C15_Witness ==
    /\ pc = "done"
    /\ BagIn(Message("Scan complete"), console)
    /\ UdpTasks # {} /\ TcpTasks # {}
    /\ ResultLines(file) # {}

\* what scan_tcp returns for each outcome of the connect and of the read
ScanTcpClassifies ==
    \A p \in 1..MaxPort :
        /\ ConnectResult(p, "timeout") = <<Line("TCP", p, "TIMEOUT", "")>>
        /\ ConnectResult(p, "failed") = <<Line("TCP", p, "CLOSED", "")>>
        /\ \A o \in BannerOutcomes :
            /\ Len(BannerResult(p, o)) = 1
            /\ BannerResult(p, o)[1].status = "OPEN"
            /\ BannerResult(p, o)[1].banner # "" <=> o = "data"

\* C16: a connect that times out gives TIMEOUT and one that fails gives
\* CLOSED, both with an empty banner; a connect that succeeds gives OPEN
\* whatever the banner read does; a banner is non-empty only for the read
\* that returned data, hence only with OPEN.
C16_TcpClassification ==
    /\ [](/\ ScanTcpClassifies
          /\ \A i \in TcpTasks : Produced(i) =>
              /\ tasks[i].res[1].status \in {"OPEN", "CLOSED", "TIMEOUT"}
              /\ tasks[i].res[1].banner # "" => tasks[i].res[1].status = "OPEN")
    /\ [][\A i \in TcpTasks : Finishes(i) =>
            /\ Len(tasks'[i].res) = 1
            /\ tasks[i].st = "spawned" =>
                /\ tasks'[i].res[1].status \in {"CLOSED", "TIMEOUT"}
                /\ tasks'[i].res[1].banner = ""
            /\ tasks[i].st = "readable" => tasks'[i].res[1].status = "OPEN"]_vars

\* C16 witness: an open port without banner, an open port with banner and
\* a closed port have been classified.
C16_Witness ==
    /\ \E i \in TcpTasks : Produced(i) /\ tasks[i].res[1] = Line("TCP", tasks[i].port, "OPEN", "")
    /\ \E i \in TcpTasks : Produced(i) /\ tasks[i].res[1].banner # ""

\* C17: from the creation of the semaphore on, the free permits plus the
\* workers in flight equal the concurrency, and all permits are free when
\* the scan has completed.
C17_PermitConservation ==
    /\ pc # "start" => permits + NumInFlight = concurrency
    /\ pc = "done" => permits = concurrency

\* C17 witness: a completed scan, all permits free, in which one worker
\* produced no result and one write failed.
C17_Witness ==
    /\ pc = "done"
    /\ concurrency >= 1 /\ permits = concurrency
    /\ \E i \in 1..Len(tasks) : Done(i) /\ ~Produced(i)
    /\ writeFailures > 0

\* C18: when run_with_settings has returned an error from a dispatch loop,
\* no worker it dispatched is still running (so that no line can be written
\* after the return).
C18_NoOrphanedWorkers == pc = "err" => NumInFlight = 0

(***************************************************************************)
(* Properties of the RDP module (checked under SpecRdp).                   *)
(***************************************************************************)
LoginsInFlight == {t \in 1..Len(logins) : logins[t].st # "done"}
Unjoined == {handles[k] : k \in 1..Len(handles)}

\* C19: with stop_on_success, at most one credential is ever recorded.
C19_AtMostOneFound == stop_on_success => Len(found) <= 1

\* C20: the login tasks spawned and not yet joined never exceed the
\* concurrency, every task still running is one of them, and they all
\* belong to the current password: the tasks of a password are joined
\* before a task of the next password is spawned.
C20_BoundedBatch ==
    /\ Len(handles) <= rconcurrency
    /\ Cardinality(Unjoined) = Len(handles)
    /\ LoginsInFlight \subseteq Unjoined
    /\ \A t \in Unjoined : logins[t].pass = pass
    /\ \A t \in 1..Len(logins) : logins[t].pass < pass => t \notin Unjoined

\* C20 witness: a full batch of two tasks of the second password is being
\* awaited, one of its tasks still running.
C20_Witness ==
    /\ rpc = "drain"
    /\ pass = 2
    /\ Len(handles) = rconcurrency /\ rconcurrency = 2
    /\ LoginsInFlight # {}

====
